---- MODULE Spec2Model ----
(***************************************************************************)
(* ResizingVec<T> (src/src/lib.rs): a Vec<Option<T>> addressed by index,   *)
(* together with the count of its occupied slots.                          *)
(*                                                                         *)
(* An Option<T> is a sequence of length at most one: None is <<>> and      *)
(* Some(v) is <<v>>.  A Rust index i is position i + 1 of a TLA+ sequence. *)
(***************************************************************************)
EXTENDS Integers, Sequences, FiniteSets

\* Largest index a caller passes to insert, remove, get and get_mut.
MaxIdx == 3
\* Values of type T are 1..MaxVal.
MaxVal == 2
\* Width of usize in bits, scaled down from 64 (or 32).
UsizeBits == 4

\* usize::MAX
UsizeMax == 2 ^ UsizeBits - 1
\* The most slots a Vec holds: isize::MAX bytes, a slot taking at least one
\* byte.  push panics ("capacity overflow") or the allocation fails beyond.
VecMaxLen == 2 ^ (UsizeBits - 1) - 1

Values == 1..MaxVal
Indices == 0..MaxIdx
\* Indices at the limits of Vec and of usize.
LargeIndices == {VecMaxLen - 1, VecMaxLen, UsizeMax}

None == <<>>
Some(v) == <<v>>
Options == {None} \cup {Some(v) : v \in Values}

\* Vec<T> arguments of from(): every sequence of at most MaxIdx + 1 values.
Vecs == UNION {[1..n -> Values] : n \in 0..(MaxIdx + 1)}

\* The fields of ResizingVec<T> and what the last call took and returned.
VARIABLES
    data,       \* self.data: Vec<Option<T>>
    active,     \* self.active: usize
    fault,      \* TRUE once a call has panicked
    overflow_checks,  \* the build: TRUE panics on integer overflow (the
                \* dev profile), FALSE wraps (the release profile)
    op,         \* name of the last call (the constructor, initially)
    last_idx,   \* idx argument of the last call (0 when it takes none)
    last_t,     \* t argument of the last insert (0 otherwise)
    ret,        \* Option the last call returned (None when it returns none)
    positions,  \* Vec<Position> the last call returned (resize only)
    yielded,    \* items the last call's iterator produced (iter only)
    model_map   \* a partial map from index to value kept beside the store
                \* (SpecMap only; the empty map elsewhere)

vars == <<data, active, fault, overflow_checks, op, last_idx, last_t, ret,
         positions, yielded, model_map>>

\* The struct: data is a Vec<Option<T>>, active a usize.
TypeOK ==
    /\ data \in Seq(Options)
    /\ active \in Nat
    /\ fault \in BOOLEAN
    /\ overflow_checks \in BOOLEAN
    /\ ret \in Options

----------------------------------------------------------------------------
(* Accessors *)

\* reserved_space(): self.data.len()
reserved_space == Len(data)

\* filled(): self.active
filled == active

\* The indices of the Some(_) slots of a backing vector.
Occupied(d) == {i \in 0..(Len(d) - 1) : d[i + 1] /= None}

----------------------------------------------------------------------------
(* Constructors *)

\* Default::default(), new()
Default == [data |-> <<>>, active |-> 0]

\* prefill(capacity): capacity times None
Prefill(capacity) == [data |-> [i \in 1..capacity |-> None], active |-> 0]

\* Mutant of From: active is left at 0, as in the other constructors.
FromActiveZero(value) ==
    [data |-> [i \in 1..Len(value) |-> Some(value[i])], active |-> 0]

\* From<Vec<T>>: every element wrapped in Some, active = data.len()
From(value) ==
    LET d == [i \in 1..Len(value) |-> Some(value[i])]
    IN  [data |-> d, active |-> Len(d)]

----------------------------------------------------------------------------
(* Index / IndexMut *)

\* self.data[index] panics when index is out of bounds
IndexFault(d, index) == ~(index < Len(d))

\* index(): &self.data[index], the slot itself
Index(d, index) == IF IndexFault(d, index) THEN None ELSE d[index + 1]

\* self.data after rv[index] = slot: the store through index_mut()'s
\* &mut self.data[index]; nothing else of self is touched
IndexMutData(d, index, slot) ==
    IF IndexFault(d, index) THEN d ELSE [d EXCEPT ![index + 1] = slot]

----------------------------------------------------------------------------
(* get / get_mut *)

\* Mutant of Get: the bounds test excludes the last slot.
GetBelowLast(d, idx) == IF idx + 1 < Len(d) THEN d[idx + 1] ELSE None

\* self.data.get(idx): None out of range, else the slot; then as_ref()
Get(d, idx) == IF idx < Len(d) THEN d[idx + 1] ELSE None

\* self.data.get_mut(idx), then as_mut(): the same slot, borrowed mutably
GetMut(d, idx) == IF idx < Len(d) THEN d[idx + 1] ELSE None

----------------------------------------------------------------------------
(* iter *)

\* self.data.iter().enumerate() from index i on, filter_map keeping the
\* occupied slots as (idx, &T)
RECURSIVE IterFrom(_, _)
IterFrom(d, i) ==
    IF i >= Len(d) THEN <<>>
    ELSE (IF d[i + 1] /= None THEN << <<i, d[i + 1][1]>> >> ELSE <<>>)
         \o IterFrom(d, i + 1)

\* Mutant of Iter: filter before enumerate, so idx counts the occupied slots.
IterFilterThenEnumerate(d) ==
    LET some == SelectSeq(d, LAMBDA o : o /= None)
    IN  [k \in 1..Len(some) |-> <<k - 1, some[k][1]>>]

Iter(d) == IterFrom(d, 0)

----------------------------------------------------------------------------
(* remove *)

\* The bounds test of remove: self.data.len() > idx
RemoveInRange(d, idx) == Len(d) > idx

\* prev = self.data[idx].take(), or None out of range: the value returned
RemovePrev(d, idx) == IF RemoveInRange(d, idx) THEN d[idx + 1] ELSE None

\* Mutant of RemoveData: self.data.remove(idx), which shifts the tail down.
RemoveDataShifts(d, idx) ==
    IF RemoveInRange(d, idx)
    THEN SubSeq(d, 1, idx) \o SubSeq(d, idx + 2, Len(d))
    ELSE d

\* Mutant of RemoveData: after the take(), trailing None slots are popped.
RECURSIVE PopTrailingNone(_)
PopTrailingNone(d) ==
    IF Len(d) > 0 /\ d[Len(d)] = None
    THEN PopTrailingNone(SubSeq(d, 1, Len(d) - 1))
    ELSE d

RemoveDataTrims(d, idx) ==
    IF RemoveInRange(d, idx)
    THEN PopTrailingNone([d EXCEPT ![idx + 1] = None])
    ELSE d

\* self.data after remove: take() leaves None in the slot
RemoveData(d, idx) ==
    IF RemoveInRange(d, idx) THEN [d EXCEPT ![idx + 1] = None] ELSE d

\* self.active -= 1 goes below 0
RemoveUnderflow(d, a, idx) == RemovePrev(d, idx) /= None /\ a = 0

\* self.active -= 1 panics ("attempt to subtract with overflow") when it
\* would go below 0 in a build with overflow checks
RemoveFault(d, a, idx) == overflow_checks /\ RemoveUnderflow(d, a, idx)

\* Mutant of RemoveActive: one less for every in-range remove, without the
\* prev.is_some() test.
RemoveActiveInRange(d, a, idx) == IF RemoveInRange(d, idx) THEN a - 1 ELSE a

\* self.active after remove: one less if prev.is_some()
\* (unchanged by the panic; wrapped to usize::MAX without overflow checks)
RemoveActive(d, a, idx) ==
    IF RemovePrev(d, idx) = None \/ RemoveFault(d, a, idx) THEN a
    ELSE (a - 1) % (UsizeMax + 1)

----------------------------------------------------------------------------
(* insert *)

\* Mutant of InsertGrow: self.data.resize_with(idx + 1, || None), which
\* truncates a vector longer than idx + 1.
InsertGrowResizeWith(d, idx) ==
    [i \in 1..(idx + 1) |-> IF i <= Len(d) THEN d[i] ELSE None]

\* Mutant of InsertGrow: the loop tests self.data.len() < idx.
RECURSIVE InsertGrowLess(_, _)
InsertGrowLess(d, idx) ==
    IF Len(d) < idx /\ Len(d) < VecMaxLen
    THEN InsertGrowLess(Append(d, None), idx)
    ELSE d

\* while self.data.len() <= idx { self.data.push(None); }
\* The loop ends when its test fails or when push panics on a full vector.
RECURSIVE InsertGrow(_, _)
InsertGrow(d, idx) ==
    IF Len(d) <= idx /\ Len(d) < VecMaxLen
    THEN InsertGrow(Append(d, None), idx)
    ELSE d

\* insert panics before it writes the slot: push on a vector of VecMaxLen
\* slots, or self.data[idx] out of bounds of the grown vector
InsertFault(d, idx) == ~(idx < Len(InsertGrow(d, idx)))

\* prev = std::mem::replace(&mut self.data[idx], Some(t)): the value returned
InsertPrev(d, idx) ==
    IF InsertFault(d, idx) THEN None ELSE InsertGrow(d, idx)[idx + 1]

\* Mutant of InsertData: also the slots the growth created are set to Some(t).
InsertDataFillsGap(d, idx, t) ==
    IF InsertFault(d, idx) THEN InsertGrow(d, idx)
    ELSE [i \in 1..Len(InsertGrow(d, idx)) |->
            IF i > Len(d) \/ i = idx + 1 THEN Some(t) ELSE d[i]]

\* self.data after insert
InsertData(d, idx, t) ==
    IF InsertFault(d, idx) THEN InsertGrow(d, idx)
    ELSE [InsertGrow(d, idx) EXCEPT ![idx + 1] = Some(t)]

\* self.active += 1 goes above usize::MAX
InsertOverflow(d, a, idx) ==
    ~InsertFault(d, idx) /\ InsertPrev(d, idx) = None /\ a = UsizeMax

\* self.active += 1 panics ("attempt to add with overflow") in a build with
\* overflow checks
InsertActiveFault(d, a, idx) == overflow_checks /\ InsertOverflow(d, a, idx)

\* Mutant of InsertActive: counts every insert, also an overwrite.
InsertActiveAlways(d, a, idx) == a + 1

\* Mutant of InsertActive: counts an insert only when the vector grew.
InsertActiveOnGrowth(d, a, idx) == IF Len(d) <= idx THEN a + 1 ELSE a

\* self.active after insert: one more if prev.is_none()
\* (unchanged by the panic; wrapped to 0 without overflow checks)
InsertActive(d, a, idx) ==
    IF InsertFault(d, idx) \/ InsertPrev(d, idx) /= None
          \/ InsertActiveFault(d, a, idx)
    THEN a
    ELSE (a + 1) % (UsizeMax + 1)

----------------------------------------------------------------------------
(* clear *)

\* Mutant of Clear: every slot is emptied and the slots are kept.
ClearKeepsSlots(d) == [data |-> [i \in 1..Len(d) |-> None], active |-> 0]

\* clear(): *self = Self::default()
Clear(d) == Default

----------------------------------------------------------------------------
(* resize *)

\* Mutant of ResizeLoop: the loop stops one slot before the end of prev.
RECURSIVE ResizeLoopShort(_, _, _, _)
ResizeLoopShort(prev, idx, d, pos) ==
    IF idx + 1 >= Len(prev) THEN [data |-> d, positions |-> pos]
    ELSE LET elem == prev[idx + 1]
             pushed == Append(d, elem)
         IN  IF elem /= None
             THEN ResizeLoopShort(prev, idx + 1, pushed,
                                  Append(pos, [prev_idx |-> idx,
                                               new_idx |-> Len(pushed) - 1]))
             ELSE ResizeLoopShort(prev, idx + 1, d, pos)

\* Mutant of ResizeLoop: new_idx is self.data.len() after the push, without
\* the - 1.
RECURSIVE ResizeLoopLenAsIdx(_, _, _, _)
ResizeLoopLenAsIdx(prev, idx, d, pos) ==
    IF idx >= Len(prev) THEN [data |-> d, positions |-> pos]
    ELSE LET elem == prev[idx + 1]
             pushed == Append(d, elem)
         IN  IF elem /= None
             THEN ResizeLoopLenAsIdx(prev, idx + 1, pushed,
                                     Append(pos, [prev_idx |-> idx,
                                                  new_idx |-> Len(pushed)]))
             ELSE ResizeLoopLenAsIdx(prev, idx + 1, d, pos)

\* Mutant of ResizeLoop: a Position is pushed only for an element that moved.
RECURSIVE ResizeLoopOnlyMoved(_, _, _, _)
ResizeLoopOnlyMoved(prev, idx, d, pos) ==
    IF idx >= Len(prev) THEN [data |-> d, positions |-> pos]
    ELSE LET elem == prev[idx + 1]
             pushed == Append(d, elem)
         IN  IF elem /= None
             THEN ResizeLoopOnlyMoved(prev, idx + 1, pushed,
                     IF idx = Len(pushed) - 1 THEN pos
                     ELSE Append(pos, [prev_idx |-> idx,
                                       new_idx |-> Len(pushed) - 1]))
             ELSE ResizeLoopOnlyMoved(prev, idx + 1, d, pos)

\* Mutant of ResizeLoop: an occupied slot is pushed twice when the slot
\* before it is occupied too.
RECURSIVE ResizeLoopRepeats(_, _, _, _)
ResizeLoopRepeats(prev, idx, d, pos) ==
    IF idx >= Len(prev) THEN [data |-> d, positions |-> pos]
    ELSE LET elem == prev[idx + 1]
             twice == idx > 0 /\ prev[idx] /= None
             pushed == IF twice THEN Append(Append(d, elem), elem)
                       ELSE Append(d, elem)
         IN  IF elem /= None
             THEN ResizeLoopRepeats(prev, idx + 1, pushed,
                                    Append(pos, [prev_idx |-> idx,
                                                 new_idx |-> Len(pushed) - 1]))
             ELSE ResizeLoopRepeats(prev, idx + 1, d, pos)

\* for (idx, elem) in prev.into_iter().enumerate(), from index idx on, with
\* d the new self.data and pos the positions pushed so far
RECURSIVE ResizeLoop(_, _, _, _)
ResizeLoop(prev, idx, d, pos) ==
    IF idx >= Len(prev) THEN [data |-> d, positions |-> pos]
    ELSE LET elem == prev[idx + 1]
             pushed == Append(d, elem)
         IN  IF elem /= None
             THEN ResizeLoop(prev, idx + 1, pushed,
                             Append(pos, [prev_idx |-> idx,
                                          new_idx |-> Len(pushed) - 1]))
             ELSE ResizeLoop(prev, idx + 1, d, pos)

\* resize(): the loop from an empty vector, then self.active = self.data.len()
Resize(d) ==
    LET r == ResizeLoop(d, 0, <<>>, <<>>)
    IN  [data |-> r.data, active |-> Len(r.data), positions |-> r.positions]

\* Position::changed
changed(p) == p.prev_idx /= p.new_idx

----------------------------------------------------------------------------
(* A partial map from index to value, the abstract view of the store. *)

EmptyMap == [i \in {} |-> 0]

\* The map holding value[i] at every index i of a Vec<T>.
MapOfVec(value) == [i \in 0..(Len(value) - 1) |-> value[i + 1]]

MapInsert(m, i, v) ==
    [j \in (DOMAIN m) \cup {i} |-> IF j = i THEN v ELSE m[j]]

MapRemove(m, i) == [j \in (DOMAIN m) \ {i} |-> m[j]]

MapGet(m, i) == IF i \in DOMAIN m THEN Some(m[i]) ELSE None

----------------------------------------------------------------------------
(* The state machine: one object, its constructor, then any calls. *)

NoResult == ret = None /\ positions = <<>> /\ yielded = <<>>

InitNew ==
    /\ data = Default.data /\ active = Default.active
    /\ op = "new" /\ last_idx = 0

InitPrefill ==
    \E capacity \in 0..(MaxIdx + 1) :
        /\ data = Prefill(capacity).data /\ active = Prefill(capacity).active
        /\ op = "prefill" /\ last_idx = capacity

InitFromValue(value) ==
    /\ data = From(value).data /\ active = From(value).active
    /\ op = "from" /\ last_idx = 0

InitFrom == \E value \in Vecs : InitFromValue(value)

InitCommon ==
    /\ fault = FALSE /\ last_t = 0
    /\ overflow_checks \in BOOLEAN
    /\ NoResult

Init ==
    /\ InitNew \/ InitPrefill \/ InitFrom
    /\ InitCommon
    /\ model_map = EmptyMap

DoGet ==
    /\ ~fault /\ UNCHANGED <<overflow_checks, model_map>>
    /\ \E idx \in Indices :
        /\ op' = "get" /\ last_idx' = idx /\ last_t' = 0
        /\ ret' = Get(data, idx)
        /\ positions' = <<>> /\ yielded' = <<>>
        /\ UNCHANGED <<data, active, fault>>

DoGetMut ==
    /\ ~fault /\ UNCHANGED <<overflow_checks, model_map>>
    /\ \E idx \in Indices :
        /\ op' = "get_mut" /\ last_idx' = idx /\ last_t' = 0
        /\ ret' = GetMut(data, idx)
        /\ positions' = <<>> /\ yielded' = <<>>
        /\ UNCHANGED <<data, active, fault>>

DoIter ==
    /\ ~fault /\ UNCHANGED <<overflow_checks, model_map>>
    /\ op' = "iter" /\ last_idx' = 0 /\ last_t' = 0
    /\ yielded' = Iter(data)
    /\ ret' = None /\ positions' = <<>>
    /\ UNCHANGED <<data, active, fault>>

RemoveCall(idx) ==
    /\ op' = "remove" /\ last_idx' = idx /\ last_t' = 0
    /\ data' = RemoveData(data, idx)
    /\ active' = RemoveActive(data, active, idx)
    /\ fault' = RemoveFault(data, active, idx)
    /\ ret' = IF RemoveFault(data, active, idx) THEN None
              ELSE RemovePrev(data, idx)
    /\ positions' = <<>> /\ yielded' = <<>>

DoRemove ==
    /\ ~fault /\ UNCHANGED <<overflow_checks, model_map>>
    /\ \E idx \in Indices : RemoveCall(idx)

InsertCall(idx, t) ==
    /\ op' = "insert" /\ last_idx' = idx /\ last_t' = t
    /\ data' = InsertData(data, idx, t)
    /\ active' = InsertActive(data, active, idx)
    /\ fault' = (InsertFault(data, idx)
                 \/ InsertActiveFault(data, active, idx))
    /\ ret' = IF InsertActiveFault(data, active, idx) THEN None
              ELSE InsertPrev(data, idx)
    /\ positions' = <<>> /\ yielded' = <<>>

DoInsert ==
    /\ ~fault /\ UNCHANGED <<overflow_checks, model_map>>
    /\ \E idx \in Indices, t \in Values : InsertCall(idx, t)

\* insert at an index at the limits of Vec and of usize
DoInsertLarge ==
    /\ ~fault /\ UNCHANGED <<overflow_checks, model_map>>
    /\ \E idx \in LargeIndices, t \in Values : InsertCall(idx, t)

\* rv[index]: a read through Index
DoIndex ==
    /\ ~fault /\ UNCHANGED <<overflow_checks, model_map>>
    /\ \E index \in Indices :
        /\ op' = "index" /\ last_idx' = index /\ last_t' = 0
        /\ fault' = IndexFault(data, index)
        /\ ret' = Index(data, index)
        /\ positions' = <<>> /\ yielded' = <<>>
        /\ UNCHANGED <<data, active>>

\* rv[index] = slot: a write through IndexMut
DoIndexMut ==
    /\ ~fault /\ UNCHANGED <<overflow_checks, model_map>>
    /\ \E index \in Indices, slot \in Options :
        /\ op' = "index_mut" /\ last_idx' = index
        /\ last_t' = IF slot = None THEN 0 ELSE slot[1]
        /\ fault' = IndexFault(data, index)
        /\ data' = IndexMutData(data, index, slot)
        /\ ret' = None /\ positions' = <<>> /\ yielded' = <<>>
        /\ UNCHANGED active

DoClear ==
    /\ ~fault /\ UNCHANGED <<overflow_checks, model_map>>
    /\ op' = "clear" /\ last_idx' = 0 /\ last_t' = 0
    /\ data' = Clear(data).data /\ active' = Clear(data).active
    /\ ret' = None /\ positions' = <<>> /\ yielded' = <<>>
    /\ UNCHANGED fault

DoResize ==
    /\ ~fault /\ UNCHANGED <<overflow_checks, model_map>>
    /\ op' = "resize" /\ last_idx' = 0 /\ last_t' = 0
    /\ data' = Resize(data).data
    /\ active' = Resize(data).active
    /\ positions' = Resize(data).positions
    /\ ret' = None /\ yielded' = <<>>
    /\ UNCHANGED fault

Next ==
    \/ DoGet
    \/ DoGetMut
    \/ DoIter
    \/ DoRemove
    \/ DoInsert
    \/ DoClear
    \/ DoResize

Spec == Init /\ [][Next]_vars

\* The methods and the index operator.
NextIndex ==
    \/ Next
    \/ DoIndex
    \/ DoIndexMut

SpecIndex == Init /\ [][NextIndex]_vars

\* insert and remove (and get), each applied to the store and to model_map.
InitMap ==
    /\ \/ InitNew /\ model_map = EmptyMap
       \/ InitPrefill /\ model_map = EmptyMap
       \/ \E value \in Vecs :
             InitFromValue(value) /\ model_map = MapOfVec(value)
    /\ InitCommon

DoInsertBoth ==
    /\ ~fault /\ UNCHANGED overflow_checks
    /\ \E idx \in Indices, t \in Values :
        /\ InsertCall(idx, t)
        /\ model_map' = MapInsert(model_map, idx, t)

DoRemoveBoth ==
    /\ ~fault /\ UNCHANGED overflow_checks
    /\ \E idx \in Indices :
        /\ RemoveCall(idx)
        /\ model_map' = MapRemove(model_map, idx)

NextMap ==
    \/ DoInsertBoth
    \/ DoRemoveBoth
    \/ DoGet

SpecMap == InitMap /\ [][NextMap]_vars

\* Inserts at the limits of Vec and of usize.
SpecWide == Init /\ [][DoInsertLarge]_vars

----------------------------------------------------------------------------
(* Properties *)

\* Indices a caller may probe: every slot that can exist and one beyond.
Probes == 0..(MaxIdx + 1)

\* C1: in every state reached from new(), prefill(c) or from(vec) by insert,
\* remove, clear and resize calls (and the reads), filled() is the number of
\* occupied slots of data, hence 0 <= filled() <= reserved_space().
C1_FilledCountsOccupied ==
    /\ filled = Cardinality(Occupied(data))
    /\ 0 <= filled
    /\ filled <= reserved_space

\* A remove took a value out and left the store partly filled.
C1_Witness ==
    /\ op = "remove" /\ ret /= None
    /\ 0 < filled /\ filled < reserved_space

\* C2: directly after insert(i, v), get(i) is Some(v) and get(j) of every
\* other index j is what it was before the insert; the slots the growth
\* created read as None.
C2_InsertGetRoundTrip ==
    [][op' = "insert" =>
          /\ Get(data', last_idx') = Some(last_t')
          /\ \A j \in Probes :
                j /= last_idx' => Get(data', j) = Get(data, j)
          /\ \A j \in Probes :
                (Len(data) <= j /\ j < last_idx') => Get(data', j) = None]_vars

\* An insert at the end of the store, with an empty slot and an occupied slot
\* before it.
C2_Witness ==
    /\ op = "insert" /\ Get(data, last_idx) = Some(last_t)
    /\ reserved_space = last_idx + 1
    /\ \E j \in 0..(last_idx - 1) : Get(data, j) = None
    /\ \E j \in 0..(last_idx - 1) : Get(data, j) /= None

IsSome(o) == o /= None

\* The values of a sequence of (idx, value) items, in order.
ValuesOf(items) == [k \in 1..Len(items) |-> items[k][2]]

\* C3: after resize(), reserved_space() = filled() = the filled() before the
\* call, every slot is occupied, and iter() yields the values that were
\* occupied before the call in their ascending-index order (data is the
\* subsequence of the occupied slots of the old data).
C3_ResizeCompacts ==
    [][op' = "resize" =>
          /\ Len(data') = active'
          /\ active' = active
          /\ \A i \in 1..Len(data') : data'[i] /= None
          /\ ValuesOf(Iter(data')) = ValuesOf(Iter(data))
          /\ data' = SelectSeq(data, IsSome)]_vars

\* A resize that moved two elements over gaps: the second element came from
\* beyond a gap, and the store shrank to the elements.
C3_Witness ==
    /\ op = "resize" /\ filled >= 2 /\ reserved_space = filled
    /\ \E k \in 1..Len(positions) : changed(positions[k])
    /\ positions[Len(positions)].prev_idx > Len(positions)

\* C4: resize() returns one Position per slot occupied before the call; the
\* k-th (from 0) has prev_idx the index of the k-th occupied slot in
\* ascending order and new_idx = k, and get(new_idx) after the call is
\* get(prev_idx) before it.
C4_ResizePositions ==
    [][op' = "resize" =>
          /\ Len(positions') = active
          /\ Len(positions') = Cardinality(Occupied(data))
          /\ \A k \in 1..Len(positions') :
                LET p == positions'[k]
                IN  /\ p.new_idx = k - 1
                    /\ p.prev_idx \in Occupied(data)
                    /\ Cardinality({j \in Occupied(data) : j < p.prev_idx})
                          = k - 1
                    /\ Get(data', p.new_idx) /= None
                    /\ Get(data', p.new_idx) = Get(data, p.prev_idx)]_vars

\* A resize that returned an unchanged first Position and a changed later one
\* (as in the test resize: 0 -> 0, then moved elements).
C4_Witness ==
    /\ op = "resize" /\ Len(positions) >= 3
    /\ ~changed(positions[1])
    /\ changed(positions[2])
    /\ positions[3].prev_idx = MaxIdx

\* C5: insert(idx, v) on a store of n slots: if idx >= n the store grows to
\* exactly idx + 1 slots, slots n..idx-1 are empty and slot idx holds v; if
\* idx < n the number of slots is unchanged.  On the empty store of new(),
\* reserved_space() becomes idx + 1 and filled() becomes 1.
C5_InsertGrowth ==
    [][op' = "insert" =>
          LET n == Len(data)
              idx == last_idx'
          IN  /\ idx >= n =>
                    /\ Len(data') = idx + 1
                    /\ \A j \in n..(idx - 1) : data'[j + 1] = None
                    /\ data'[idx + 1] = Some(last_t')
              /\ idx < n => Len(data') = n
              /\ (n = 0 /\ active = 0) =>
                    (Len(data') = idx + 1 /\ active' = 1)]_vars

\* An insert at index k >= 2 into nothing but empty slots below it: the
\* store has k + 1 slots and one value.
C5_Witness ==
    /\ op = "insert" /\ last_idx >= 2
    /\ reserved_space = last_idx + 1 /\ filled = 1
    /\ data[last_idx + 1] = Some(last_t)

\* C6: insert(idx, v) returns the previous occupant of slot idx, None when
\* the slot was empty or out of range; filled() grows by 1 exactly when the
\* slot was not occupied and is unchanged on an overwrite.
C6_InsertReturnsPrevious ==
    [][op' = "insert" =>
          LET before == IF last_idx' < Len(data) THEN data[last_idx' + 1]
                        ELSE None
          IN  /\ ret' = before
              /\ before = None => active' = active + 1
              /\ before /= None => active' = active]_vars

\* An insert that overwrote a different value and returned it.
C6_Witness ==
    /\ op = "insert" /\ ret /= None /\ ret /= Some(last_t)
    /\ Get(data, last_idx) = Some(last_t)

\* C7: remove(idx) of an out-of-range index or of an empty slot returns None,
\* does not panic and changes neither data nor filled(); so a remove(idx)
\* directly after a remove(idx) returns None and changes nothing.
C7_RemoveAbsentIsNoOp ==
    [][/\ (/\ op' = "remove"
           /\ (last_idx' >= Len(data) \/ data[last_idx' + 1] = None)) =>
              /\ ret' = None /\ fault' = FALSE
              /\ data' = data /\ active' = active
       /\ (op = "remove" /\ op' = "remove" /\ last_idx' = last_idx) =>
              /\ ret' = None /\ fault' = FALSE
              /\ data' = data /\ active' = active]_vars

\* A remove beyond the end of a store that holds values and empty slots.
C7_Witness ==
    /\ op = "remove" /\ ret = None /\ ~fault
    /\ last_idx >= reserved_space
    /\ 0 < filled /\ filled < reserved_space

\* C8: remove(idx) of an occupied slot returns its value, leaves the slot
\* empty, decrements filled() by 1, keeps reserved_space() and every other
\* slot.
C8_RemoveOccupied ==
    [][(/\ op' = "remove"
        /\ last_idx' < Len(data)
        /\ data[last_idx' + 1] /= None) =>
           /\ ret' = data[last_idx' + 1]
           /\ Get(data', last_idx') = None
           /\ active' = active - 1
           /\ Len(data') = Len(data)
           /\ \A j \in 0..(Len(data) - 1) :
                 j /= last_idx' => data'[j + 1] = data[j + 1]]_vars

\* A remove that returned a value from the middle of the store, with an
\* occupied slot on each side of it.
C8_Witness ==
    /\ op = "remove" /\ ret /= None
    /\ 0 < last_idx /\ last_idx + 1 < reserved_space
    /\ Get(data, last_idx) = None
    /\ Get(data, last_idx - 1) /= None
    /\ Get(data, last_idx + 1) /= None

\* C9: clear() leaves the state of new(): no slots, filled() = 0, get(i) is
\* None for every i, and iter() (also the iter() called next) yields nothing.
C9_ClearResets ==
    [][/\ op' = "clear" =>
              /\ Len(data') = 0 /\ active' = 0
              /\ data' = Default.data /\ active' = Default.active
              /\ Iter(data') = <<>>
              /\ \A i \in Probes : Get(data', i) = None
       /\ (op = "clear" /\ op' = "iter") => yielded' = <<>>]_vars

\* A clear has run and left no slots.
C9_Witness ==
    /\ op = "clear" /\ reserved_space = 0 /\ filled = 0
    /\ Iter(data) = <<>>

\* C10: get(idx) and get_mut(idx) return the value of slot idx exactly when
\* idx < reserved_space() and the slot is occupied, None otherwise, without
\* panicking; get changes neither data nor filled().
C10_GetBoundsAndOccupancy ==
    [][op' \in {"get", "get_mut"} =>
          LET present == last_idx' < Len(data) /\ data[last_idx' + 1] /= None
          IN  /\ present => ret' = data[last_idx' + 1]
              /\ ~present => ret' = None
              /\ fault' = FALSE
              /\ op' = "get" => (data' = data /\ active' = active)]_vars

\* A get of an occupied last slot of a store that also has an empty slot.
C10_Witness ==
    /\ op = "get" /\ ret /= None /\ ~fault
    /\ last_idx + 1 = reserved_space
    /\ filled < reserved_space

\* C11: iter() yields one (idx, value) per occupied slot and none for an
\* empty slot, in strictly ascending idx order, value being get(idx); the
\* number of items is filled(); iter() again on the unchanged store yields
\* the same sequence.
C11_IterOccupiedAscending ==
    [][op' = "iter" =>
          /\ {yielded'[k][1] : k \in 1..Len(yielded')} = Occupied(data)
          /\ \A k \in 1..(Len(yielded') - 1) :
                yielded'[k][1] < yielded'[k + 1][1]
          /\ \A k \in 1..Len(yielded') :
                Some(yielded'[k][2]) = Get(data, yielded'[k][1])
          /\ Len(yielded') = filled
          /\ op = "iter" => yielded' = yielded]_vars

\* An iter that skipped an empty slot between two items.
C11_Witness ==
    /\ op = "iter" /\ Len(yielded) >= 2
    /\ yielded[2][1] > yielded[1][1] + 1
    /\ yielded[1][2] /= yielded[2][2]

\* C12: reserved_space() decreases only in a clear() or resize() step:
\* insert keeps or increases it; remove, get, get_mut and iter keep it.
C12_ReservedSpaceMonotone ==
    [][/\ op' \notin {"clear", "resize"} => Len(data') >= Len(data)
       /\ op' \in {"remove", "get", "get_mut", "iter"} =>
              Len(data') = Len(data)]_vars

\* A remove took the last value out of the last slot and the slots stayed.
C12_Witness ==
    /\ op = "remove" /\ ret /= None
    /\ last_idx + 1 = reserved_space
    /\ filled = 0 /\ reserved_space >= 2

C14_Constructors ==
    /\ op = "new" => (reserved_space = 0 /\ filled = 0)
    /\ op = "prefill" =>
          /\ reserved_space = last_idx /\ filled = 0
          /\ \A i \in Probes : Get(data, i) = None
    /\ op = "from" =>
          /\ reserved_space = filled
          /\ \A i \in 0..(reserved_space - 1) : Get(data, i) /= None
          /\ \A value \in Vecs :
                data = From(value).data =>
                   /\ reserved_space = Len(value)
                   /\ filled = Len(value)
                   /\ \A i \in 0..(Len(value) - 1) :
                         Get(data, i) = Some(value[i + 1])
                   /\ Get(data, Len(value)) = None

\* A store built by from() of at least two values, not all equal.
C14_Witness ==
    /\ op = "from" /\ reserved_space >= 2 /\ filled = reserved_space
    /\ Get(data, 0) /= Get(data, 1)

\* C15 as claimed: filled() is the number of occupied slots and at most
\* reserved_space() in every state, also when slots are written through
\* IndexMut between inserts and removes; the active -= 1 of remove never goes
\* below 0.
C15_FilledHoldsWithIndexMut ==
    /\ filled <= reserved_space
    /\ filled = Cardinality(Occupied(data))
    /\ ~(op = "remove" /\ fault)

\* C16 as claimed: a read (or write) through the index operator at an index
\* out of range raises no fault; the read gives an absent result.
C16_IndexNeverFaults ==
    op \in {"index", "index_mut"} =>
        /\ ~fault
        /\ (op = "index" /\ last_idx >= reserved_space) => ret = None

\* C17: every Position of resize() has new_idx <= prev_idx, and changed() is
\* false exactly when every slot before prev_idx was occupied before the
\* call; every occupied slot is reported, also one that did not move.
C17_PositionChanged ==
    [][op' = "resize" =>
          /\ \A k \in 1..Len(positions') :
                LET p == positions'[k]
                IN  /\ p.new_idx <= p.prev_idx
                    /\ ~changed(p) <=>
                          \A j \in 0..(p.prev_idx - 1) : Get(data, j) /= None
          /\ \A i \in Occupied(data) :
                \E k \in 1..Len(positions') : positions'[k].prev_idx = i]_vars

\* A resize reported two elements that stayed at the front and then one that
\* moved over a gap.
C17_Witness ==
    /\ op = "resize" /\ Len(positions) >= 3
    /\ ~changed(positions[1]) /\ ~changed(positions[2])
    /\ changed(positions[3])

\* C18: resize() of a store whose every slot is occupied (filled() =
\* reserved_space(), as after a resize() or from(vec)) changes no slot, nor
\* filled() nor reserved_space(), and returns one unchanged Position per
\* element; resize() of a store without an occupied slot returns no Position
\* and leaves no slot.
C18_ResizeIdempotent ==
    [][op' = "resize" =>
          /\ (filled = reserved_space \/ op \in {"resize", "from"}) =>
                /\ data' = data
                /\ filled' = filled /\ reserved_space' = reserved_space
                /\ Len(positions') = Len(data)
                /\ \A k \in 1..Len(positions') :
                      /\ ~changed(positions'[k])
                      /\ positions'[k].prev_idx = k - 1
          /\ Occupied(data) = {} =>
                (positions' = <<>> /\ reserved_space' = 0)]_vars

\* A resize of a full store of at least two elements left it as it was.
C18_Witness ==
    /\ op = "resize" /\ reserved_space >= 2
    /\ Len(positions) = reserved_space
    /\ \A k \in 1..Len(positions) : ~changed(positions[k])

\* C19: beside a partial map from index to value, over any insert and remove
\* calls: get(i) is the value of the last insert at i not followed by a
\* remove(i), i.e. the map's value at i, and None where the map has none;
\* the indices where get gives a value are the map's domain and filled() is
\* its size.
C19_RefinesPartialMap ==
    /\ \A i \in Probes : Get(data, i) = MapGet(model_map, i)
    /\ {i \in Probes : Get(data, i) /= None} = DOMAIN model_map
    /\ filled = Cardinality(DOMAIN model_map)
    /\ op = "get" => ret = MapGet(model_map, last_idx)
    /\ ~fault

\* A get returned the value of a second insert at its index, with another
\* index removed and absent from the map.
C19_Witness ==
    /\ op = "get" /\ ret /= None
    /\ ret = MapGet(model_map, last_idx)
    /\ Cardinality(DOMAIN model_map) >= 2
    /\ \E i \in 0..(reserved_space - 1) : i \notin DOMAIN model_map

====
